---- MODULE Spec2Model ----
(***************************************************************************)
(* A model of pdexplore: the class-based exploration pipelines of          *)
(* base.py / general.py / numeric.py applied to one pandas series, and the *)
(* function-based drivers explore / explore_series of core.py with the     *)
(* process-wide print settings of util.py.                                 *)
(*                                                                         *)
(* A series is modelled by what the code reads of it: its dtype, the       *)
(* number of missing entries and the number of occurrences of each         *)
(* non-missing value (every operation the code applies -- len, dropna,     *)
(* unique, value_counts, isna -- is invariant under reordering).           *)
(***************************************************************************)
EXTENDS Integers, Sequences, FiniteSets, TLC

VARIABLES srs,              \* the series handed to the pipelines
          pdexplore,        \* srs.pdexplore: <<>> when the attribute is unset, <<dict>> otherwise
          pvalue,           \* p-values the statistics library has returned for srs so far
          pipeline,         \* the pipeline function that is executing ("none" when idle)
          stage,            \* index in `stages` of the next stage to apply
          log,              \* what the executing run has done so far
          runs,             \* the last two finished runs on srs, older first
          PRINT_TO_SCREEN,  \* util.PRINT_TO_SCREEN
          OUTPUT_F,         \* util.OUTPUT_F: "None" or the path of the file object
          files,            \* the file system: the paths of the existing files
          opened,           \* paths whose file object is open
          last              \* the last call of explore / explore_series and its outcome

vars == <<srs, pdexplore, pvalue, pipeline, stage, log, runs,
          PRINT_TO_SCREEN, OUTPUT_F, files, opened, last>>

pipeVars == <<srs, pdexplore, pvalue, pipeline, stage, log, runs>>
coreVars == <<PRINT_TO_SCREEN, OUTPUT_F, files, opened, last>>

-----------------------------------------------------------------------------
(* Bounds of the model. *)

NumVals == 2     \* distinct non-missing values a series may hold
MaxCount == 4    \* occurrences of one value
MaxNa == 1       \* missing entries
MaxCols == 2     \* columns of a dataframe

-----------------------------------------------------------------------------
(* Series. *)

Values == 1 .. NumVals
Dtypes == {"number", "object", "category"}

\* cnt[i] is the number of occurrences of the i-th most frequent value (the
\* order in which value_counts lists the values); 0 when there is no such value
Columns ==
    {x \in [dtype : Dtypes, na : 0 .. MaxNa, cnt : [Values -> 0 .. MaxCount]] :
        \A i \in Values : i + 1 \in Values => x.cnt[i] >= x.cnt[i + 1]}

RECURSIVE SumOver(_, _)
SumOver(f, S) ==
    IF S = {} THEN 0
    ELSE LET v == CHOOSE x \in S : TRUE IN f[v] + SumOver(f, S \ {v})

RECURSIVE MaxOver(_, _)
MaxOver(f, S) ==
    IF S = {} THEN 0
    ELSE LET v == CHOOSE x \in S : TRUE
             m == MaxOver(f, S \ {v})
         IN IF f[v] > m THEN f[v] ELSE m

\* len(srs)
len(s) == s.na + SumOver(s.cnt, DOMAIN s.cnt)

\* srs.dropna()
dropna(s) == [s EXCEPT !.na = 0]

\* srs.isna() summed: the number of missing entries
count_isna(s) == s.na

\* len(srs.unique()): pandas keeps NaN as one of the unique values
len_unique(s) ==
    Cardinality({v \in DOMAIN s.cnt : s.cnt[v] > 0}) + (IF s.na > 0 THEN 1 ELSE 0)

\* srs.value_counts(): value -> count over the non-missing entries
value_counts(s) ==
    [v \in {x \in DOMAIN s.cnt : s.cnt[x] > 0} |-> s.cnt[v]]

\* vcounts.iloc[0]: value_counts sorts by descending count
iloc0(vc) == MaxOver(vc, DOMAIN vc)

\* the history of finished runs kept: the last two
Remember(rs, r) == IF Len(rs) < 2 THEN Append(rs, r) ELSE << rs[2], r >>

\* np.issubdtype(srs.dtype, np.number): numpy cannot interpret a pandas
\* extension dtype (category) and raises TypeError
issubdtype_number(s) ==
    CASE s.dtype = "number" -> "True"
      [] s.dtype = "object" -> "False"
      [] OTHER -> "TypeError"

-----------------------------------------------------------------------------
(* The Result Cache: the dict kept in the attribute srs.pdexplore. *)

NoAttr == <<>>

\* a faulty save, against which the cache properties are tested: the dict is
\* replaced instead of updated
save_fresh(cache, key, val) == << (key :> val) >>

\* Exploration.save: set the key; on AttributeError attach an empty dict first
save(cache, key, val) ==
    IF cache = NoAttr
    THEN << (key :> val) >>
    ELSE << [k \in (DOMAIN cache[1]) \cup {key} |->
                IF k = key THEN val ELSE cache[1][k]] >>

\* what reading srs.pdexplore[key] raises ("none" when it succeeds)
ReadError(cache, key) ==
    IF cache = NoAttr THEN "AttributeError"
    ELSE IF key \notin DOMAIN cache[1] THEN "KeyError"
    ELSE "none"

-----------------------------------------------------------------------------
(* The execution record threaded through a stage: the cache, the log of    *)
(* what was done, the exception raised ("none" while running normally) and *)
(* the value returned by the last precondition method.                     *)

Ev(e, c, a, v) == [e |-> e, c |-> c, a |-> a, v |-> v]

Emit(s, e, c, a, v) == [s EXCEPT !.log = Append(@, Ev(e, c, a, v))]

Raise(s, c, x) == [Emit(s, "raise", c, x, <<>>) EXCEPT !.exc = x]

Return(s, b) == [s EXCEPT !.val = b]

\* srs.pdexplore[key] evaluated inside check c
Read(s, c, key) ==
    LET e == ReadError(s.cache, key)
        r == Emit(s, "read", c, key, <<>>)
    IN IF e = "none" THEN r ELSE Raise(r, c, e)

\* SomeExploration.save(srs, key, val) called inside check c
Save(s, c, key, val) ==
    Emit([s EXCEPT !.cache = save(@, key, val)], "save", c, key, <<>>)

\* custom_print / bold / comment / warning called inside check c
custom_print(s, c, tag, v) == Emit(s, "print", c, tag, v)

\* a statistic of the external library: a fixed function of its argument
Stat(f, x) == <<f, x>>

-----------------------------------------------------------------------------
(* numeric.py and general.py: constants. *)

DEF_ALPHA == 50          \* 0.05, in thousandths

\* the p-values (in thousandths) the tests may return: below alpha and equal to it
PValues == {DEF_ALPHA - 1, DEF_ALPHA}
Unknown == 0 - 1
Tests == {"SkewnessTest", "ShapiroWilkNormalityTest", "DagostinoNormalityTest"}

\* the entries of SUSPICIOUS_COMPUTING_INT_DICT that fit a machine integer of
\* the model checker
SUSPICIOUS_COMPUTING_INT_DICT ==
    << 0 - 128, 127, 255, 0 - 32768, 32767, 65535, 2147483647 >>

AllNines == << 99, 999, 9999, 99999, 999999, 9999999 >>

-----------------------------------------------------------------------------
(* Precondition methods.  Each takes the series and the execution record   *)
(* and returns the record with val set, or with an exception raised.       *)

\* _BaseNumericExploration.is_of_numeric_dtype, inherited by check c
is_of_numeric_dtype(c, x, s) ==
    LET r == issubdtype_number(x)
    IN IF r = "TypeError" THEN Raise(s, c, "TypeError")
       ELSE Return(s, r = "True")

ValueCountsPlot_has_atleast_two_unique_values(x, s) ==
    LET r == Read(s, "ValueCountsPlot", "vcounts")
    IN IF r.exc # "none" THEN r
       ELSE Return(r, Cardinality(DOMAIN r.cache[1]["vcounts"]) > 1)

\* a faulty threshold, against which the plot gate is tested
ValueCountsPlot_frequency_atleast_two(x, s) ==
    LET r == Read(s, "ValueCountsPlot", "vcounts")
    IN IF r.exc # "none" THEN r
       ELSE Return(r, iloc0(r.cache[1]["vcounts"]) >= 2)

ValueCountsPlot_high_enough_frequency_of_most_frequent_value(x, s) ==
    LET r == Read(s, "ValueCountsPlot", "vcounts")
    IN IF r.exc # "none" THEN r
       ELSE Return(r, iloc0(r.cache[1]["vcounts"]) > 2)

\* a faulty threshold, against which the count gate is tested
BasicNumericExploration_has_atleast_three_non_null_values(x, s) ==
    LET nona == dropna(x)
        r == Save(s, "BasicNumericExploration", "nona", nona)
    IN Return(r, len(nona) >= 3)

\* the precondition itself stores the non-missing subset in the cache
BasicNumericExploration_has_atleast_four_non_null_values(x, s) ==
    LET nona == dropna(x)
        r == Save(s, "BasicNumericExploration", "nona", nona)
    IN Return(r, len(nona) >= 4)

SkewnessTest_has_atleast_eight_non_null_values(x, s) ==
    LET r == Read(s, "SkewnessTest", "nona")
    IN IF r.exc # "none" THEN r
       ELSE Return(r, len(r.cache[1]["nona"]) >= 8)

ShapiroWilkNormalityTest_has_atleast_four_non_null_values(x, s) ==
    LET r == Read(s, "ShapiroWilkNormalityTest", "nona")
    IN IF r.exc # "none" THEN r
       ELSE Return(r, len(r.cache[1]["nona"]) >= 4)

\* a faulty threshold, against which the upper bound of the test is tested
ShapiroWilkNormalityTest_has_less_than_5000_non_null_values(x, s) ==
    LET r == Read(s, "ShapiroWilkNormalityTest", "nona")
    IN IF r.exc # "none" THEN r
       ELSE Return(r, len(r.cache[1]["nona"]) < 5000)

ShapiroWilkNormalityTest_has_atmost_5000_non_null_values(x, s) ==
    LET r == Read(s, "ShapiroWilkNormalityTest", "nona")
    IN IF r.exc # "none" THEN r
       ELSE Return(r, len(r.cache[1]["nona"]) <= 5000)

DagostinoNormalityTest_has_atleast_eight_non_null_values(x, s) ==
    LET r == Read(s, "DagostinoNormalityTest", "nona")
    IN IF r.exc # "none" THEN r
       ELSE Return(r, len(r.cache[1]["nona"]) >= 8)

\* a faulty discovery, against which the inherited precondition is tested:
\* only the methods the class of check c declares itself
own_preconditions(c) ==
    CASE c = "BasicExploration" -> << >>
      [] c = "ValueCountsPlot" ->
            << "has_atleast_two_unique_values",
               "high_enough_frequency_of_most_frequent_value" >>
      [] c = "BasicNumericExploration" -> << "has_atleast_four_non_null_values" >>
      [] c = "SkewnessTest" -> << "has_atleast_eight_non_null_values" >>
      [] c = "ShapiroWilkNormalityTest" ->
            << "has_atleast_four_non_null_values",
               "has_atmost_5000_non_null_values" >>
      [] c = "DagostinoNormalityTest" -> << "has_atleast_eight_non_null_values" >>
      [] c = "SuspiciousNumbersCheck" -> << >>

\* the methods of check c that carry the precondition mark, in the order
\* inspect.getmembers lists them: sorted by method name, inherited ones included
preconditions(c) ==
    CASE c = "BasicExploration" -> << >>
      [] c = "ValueCountsPlot" ->
            << "has_atleast_two_unique_values",
               "high_enough_frequency_of_most_frequent_value" >>
      [] c = "BasicNumericExploration" ->
            << "has_atleast_four_non_null_values", "is_of_numeric_dtype" >>
      [] c = "SkewnessTest" ->
            << "has_atleast_eight_non_null_values", "is_of_numeric_dtype" >>
      [] c = "ShapiroWilkNormalityTest" ->
            << "has_atleast_four_non_null_values",
               "has_atmost_5000_non_null_values", "is_of_numeric_dtype" >>
      [] c = "DagostinoNormalityTest" ->
            << "has_atleast_eight_non_null_values", "is_of_numeric_dtype" >>
      [] c = "SuspiciousNumbersCheck" -> << "is_of_numeric_dtype" >>

\* method.fail_msg, as given to the precondition decorator
fail_msg(c, m) ==
    CASE m = "is_of_numeric_dtype" -> "dtype is non-numeric"
      [] m = "has_atleast_two_unique_values" -> "Less than two uniqe values"
      [] m = "high_enough_frequency_of_most_frequent_value" ->
            "Low frequency of most-frequent value"
      [] m = "has_atleast_four_non_null_values" /\ c = "BasicNumericExploration" ->
            "Less than four non-null values"
      [] m = "has_atleast_four_non_null_values" /\ c = "ShapiroWilkNormalityTest" ->
            "Less than three non-null values"
      [] m = "has_atmost_5000_non_null_values" -> "More than 5000 non-null values"
      [] m = "has_atleast_eight_non_null_values" -> "Less than eight non-null values"

\* the name property of check c
name(c) ==
    CASE c = "BasicExploration" -> "Basic exploration"
      [] c = "ValueCountsPlot" -> "Value counts plot"
      [] c = "BasicNumericExploration" -> "Basic numeric exploration"
      [] c = "SkewnessTest" -> "Skewness test"
      [] c = "ShapiroWilkNormalityTest" -> "Shapiro-Wilk normality test"
      [] c = "DagostinoNormalityTest" -> "D'Agostino's K^2 normality test"
      [] c = "SuspiciousNumbersCheck" -> "Suspicious numers check"

\* method(srs) for the precondition method m of check c
call_method(c, m, x, s) ==
    CASE m = "is_of_numeric_dtype" -> is_of_numeric_dtype(c, x, s)
      [] m = "has_atleast_two_unique_values" ->
            ValueCountsPlot_has_atleast_two_unique_values(x, s)
      [] m = "high_enough_frequency_of_most_frequent_value" ->
            ValueCountsPlot_high_enough_frequency_of_most_frequent_value(x, s)
      [] m = "has_atleast_four_non_null_values" /\ c = "BasicNumericExploration" ->
            BasicNumericExploration_has_atleast_four_non_null_values(x, s)
      [] m = "has_atleast_four_non_null_values" /\ c = "ShapiroWilkNormalityTest" ->
            ShapiroWilkNormalityTest_has_atleast_four_non_null_values(x, s)
      [] m = "has_atmost_5000_non_null_values" ->
            ShapiroWilkNormalityTest_has_atmost_5000_non_null_values(x, s)
      [] m = "has_atleast_eight_non_null_values" /\ c = "SkewnessTest" ->
            SkewnessTest_has_atleast_eight_non_null_values(x, s)
      [] m = "has_atleast_eight_non_null_values" /\ c = "DagostinoNormalityTest" ->
            DagostinoNormalityTest_has_atleast_eight_non_null_values(x, s)

\* the text passed to comment() when a precondition fails
skip_message(c, m) == name(c) \o " skipped. Reason: " \o fail_msg(c, m) \o "."

\* Exploration._preconditions_hold, from the i-th precondition method on:
\* the first method that returns false reports the skip and ends the loop
RECURSIVE preconditions_loop(_, _, _, _)
preconditions_loop(c, x, s, i) ==
    IF i > Len(preconditions(c)) THEN Return(s, TRUE)
    ELSE LET m == preconditions(c)[i]
             q == call_method(c, m, x, Emit(s, "pre", c, m, <<>>))
             r == Emit(q, "ret", c, IF q.val THEN "True" ELSE "False", <<>>)
         IN IF q.exc # "none" THEN q
            ELSE IF ~ r.val
                 THEN Return(Emit(r, "skip", c, skip_message(c, m), <<>>), FALSE)
                 ELSE preconditions_loop(c, x, r, i + 1)

_preconditions_hold(c, x, s) == preconditions_loop(c, x, s, 1)

-----------------------------------------------------------------------------
(* Exploration bodies (_explore).  p is the p-value the statistics library *)
(* returns for the series (read by the three tests only).                  *)

\* count_na*100/count formatted with two decimals, in hundredths of a percent
percent(count_na, count) == (2 * 10000 * count_na + count) \div (2 * count)

BasicExploration_explore(x, s) ==
    LET c == "BasicExploration"
        s1 == custom_print(s, c, "header", <<>>)
        s2 == custom_print(s1, c, "starting", <<>>)
        s3 == custom_print(s2, c, "dtype", <<>>)
        count == len(x)
        s4 == custom_print(s3, c, "unique", <<len_unique(x), count>>)
        count_na == count_isna(x)
    IN IF count = 0 THEN Raise(s4, c, "ZeroDivisionError")
       ELSE Save(custom_print(s4, c, "missing",
                              <<percent(count_na, count), count_na>>),
                 c, "vcounts", value_counts(x))

ValueCountsPlot_explore(x, s) ==
    LET c == "ValueCountsPlot"
        r == Read(s, c, "vcounts")
    IN IF r.exc # "none" THEN r
       ELSE LET n == Cardinality(DOMAIN r.cache[1]["vcounts"])
            IN custom_print(r, c, "barplot", <<IF n > 10 THEN 10 ELSE n>>)

\* a faulty body, against which the repetition of a run is tested: it
\* reports that the frequency table was computed
BasicNumericExploration_explore_reporting(x, s) ==
    LET c == "BasicNumericExploration"
        r == Read(s, c, "nona")
    IN IF r.exc # "none" THEN r
       ELSE LET nona == r.cache[1]["nona"]
                s1 == custom_print(r, c, "numeric_start", <<>>)
                s2 == custom_print(s1, c, "min_max", <<>>)
                s3 == custom_print(s2, c, "mean_std", <<>>)
                s4 == custom_print(s3, c, "robust_intro", <<>>)
                s5 == custom_print(s4, c, "median_mad", <<>>)
                s6 == custom_print(s5, c, "skewness", <<>>)
                s7 == Save(s6, c, "skewness", Stat("skew", nona))
            IN IF "vcounts" \notin DOMAIN s7.cache[1]
               THEN Save(custom_print(s7, c, "vcounts_computed", <<>>),
                         c, "vcounts", value_counts(x))
               ELSE s7

BasicNumericExploration_explore(x, s) ==
    LET c == "BasicNumericExploration"
        r == Read(s, c, "nona")
    IN IF r.exc # "none" THEN r
       ELSE LET nona == r.cache[1]["nona"]
                s1 == custom_print(r, c, "numeric_start", <<>>)
                s2 == custom_print(s1, c, "min_max", <<>>)
                s3 == custom_print(s2, c, "mean_std", <<>>)
                s4 == custom_print(s3, c, "robust_intro", <<>>)
                s5 == custom_print(s4, c, "median_mad", <<>>)
                s6 == custom_print(s5, c, "skewness", <<>>)
                s7 == Save(s6, c, "skewness", Stat("skew", nona))
            IN IF "vcounts" \notin DOMAIN s7.cache[1]
               THEN Save(s7, c, "vcounts", value_counts(x))
               ELSE s7

\* the common shape of the three tests: read nona, cache the statistic and
\* the p-value, reject the null hypothesis when p < alpha
SkewnessTest_explore(x, s, p) ==
    LET c == "SkewnessTest"
        s1 == custom_print(s, c, "intro", <<>>)
        r == Read(s1, c, "nona")
    IN IF r.exc # "none" THEN r
       ELSE LET s2 == Save(r, c, "skew_zscore", Stat("skewtest", r.cache[1]["nona"]))
                s3 == Save(s2, c, "skew_pval", p)
                s4 == custom_print(s3, c, "result", <<p>>)
            IN IF p < DEF_ALPHA
               THEN Save(custom_print(s4, c, "rejected", <<>>), c, "normal_skewness", FALSE)
               ELSE Save(custom_print(s4, c, "not_rejected", <<>>), c, "normal_skewness", TRUE)

\* a faulty comparison, against which the verdict at p = alpha is tested
ShapiroWilkNormalityTest_explore_atmost_alpha(x, s, p) ==
    LET c == "ShapiroWilkNormalityTest"
        s0 == custom_print(s, c, "intro", <<>>)
        s1 == custom_print(s0, c, "null_hypothesis", <<>>)
        r == Read(s1, c, "nona")
    IN IF r.exc # "none" THEN r
       ELSE LET s2 == Save(r, c, "shapiro_stat", Stat("shapiro", r.cache[1]["nona"]))
                s3 == Save(s2, c, "shapiro_pval", p)
                s4 == custom_print(s3, c, "result", <<p>>)
            IN IF p <= DEF_ALPHA
               THEN Save(custom_print(s4, c, "rejected", <<>>), c, "shapiro_normal", FALSE)
               ELSE Save(custom_print(s4, c, "not_rejected", <<>>), c, "shapiro_normal", TRUE)

ShapiroWilkNormalityTest_explore(x, s, p) ==
    LET c == "ShapiroWilkNormalityTest"
        s0 == custom_print(s, c, "intro", <<>>)
        s1 == custom_print(s0, c, "null_hypothesis", <<>>)
        r == Read(s1, c, "nona")
    IN IF r.exc # "none" THEN r
       ELSE LET s2 == Save(r, c, "shapiro_stat", Stat("shapiro", r.cache[1]["nona"]))
                s3 == Save(s2, c, "shapiro_pval", p)
                s4 == custom_print(s3, c, "result", <<p>>)
            IN IF p < DEF_ALPHA
               THEN Save(custom_print(s4, c, "rejected", <<>>), c, "shapiro_normal", FALSE)
               ELSE Save(custom_print(s4, c, "not_rejected", <<>>), c, "shapiro_normal", TRUE)

DagostinoNormalityTest_explore(x, s, p) ==
    LET c == "DagostinoNormalityTest"
        s0 == custom_print(s, c, "intro", <<>>)
        s1 == custom_print(s0, c, "null_hypothesis", <<>>)
        r == Read(s1, c, "nona")
    IN IF r.exc # "none" THEN r
       ELSE LET s2 == Save(r, c, "dag_stat", Stat("normaltest", r.cache[1]["nona"]))
                s3 == Save(s2, c, "dag_pval", p)
                s4 == custom_print(s3, c, "result", <<p>>)
            IN IF p < DEF_ALPHA
               THEN Save(custom_print(s4, c, "rejected", <<>>), c, "dagostino_normal", FALSE)
               ELSE Save(custom_print(s4, c, "not_rejected", <<>>), c, "dagostino_normal", TRUE)

\* the loop over SUSPICIOUS_COMPUTING_INT_DICT, from entry i on
RECURSIVE suspicious_loop(_, _, _, _)
suspicious_loop(x, vcounts, s, i) ==
    IF i > Len(SUSPICIOUS_COMPUTING_INT_DICT) THEN s
    ELSE LET c == "SuspiciousNumbersCheck"
             n == SUSPICIOUS_COMPUTING_INT_DICT[i]
             s1 == IF n \in DOMAIN vcounts
                   THEN custom_print(s, c, "warning_found", <<n, vcounts[n]>>)
                   ELSE s
             s2 == IF len(x) = n
                   THEN custom_print(s1, c, "warning_length", <<n>>)
                   ELSE s1
         IN suspicious_loop(x, vcounts, s2, i + 1)

\* the loop over the all-nines sentinels, from entry i on
RECURSIVE nines_loop(_, _, _)
nines_loop(vcounts, s, i) ==
    IF i > Len(AllNines) THEN s
    ELSE LET n == AllNines[i]
             s1 == IF n \in DOMAIN vcounts
                   THEN custom_print(s, "SuspiciousNumbersCheck", "nines_found",
                                     <<n, vcounts[n]>>)
                   ELSE s
         IN nines_loop(vcounts, s1, i + 1)

SuspiciousNumbersCheck_explore(x, s) ==
    LET r == Read(s, "SuspiciousNumbersCheck", "vcounts")
    IN IF r.exc # "none" THEN r
       ELSE LET vcounts == r.cache[1]["vcounts"]
            IN nines_loop(vcounts, suspicious_loop(x, vcounts, r, 1), 1)

\* self._explore(srs) for check c
_explore(c, x, s, p) ==
    CASE c = "BasicExploration" -> BasicExploration_explore(x, s)
      [] c = "ValueCountsPlot" -> ValueCountsPlot_explore(x, s)
      [] c = "BasicNumericExploration" -> BasicNumericExploration_explore(x, s)
      [] c = "SkewnessTest" -> SkewnessTest_explore(x, s, p)
      [] c = "ShapiroWilkNormalityTest" -> ShapiroWilkNormalityTest_explore(x, s, p)
      [] c = "DagostinoNormalityTest" -> DagostinoNormalityTest_explore(x, s, p)
      [] c = "SuspiciousNumbersCheck" -> SuspiciousNumbersCheck_explore(x, s)

\* a faulty apply, against which the short-circuit property is tested: the
\* body runs whatever the preconditions returned
apply_unconditional(c, x, s, p) ==
    LET h == _preconditions_hold(c, x, Emit(s, "apply", c, name(c), <<>>))
    IN IF h.exc # "none" THEN h
       ELSE _explore(c, x, Emit(h, "body", c, name(c), <<>>), p)

\* Exploration.apply: the body runs if all preconditions hold
apply(c, x, s, p) ==
    LET h == _preconditions_hold(c, x, Emit(s, "apply", c, name(c), <<>>))
    IN IF h.exc # "none" THEN h
       ELSE IF h.val THEN _explore(c, x, Emit(h, "body", c, name(c), <<>>), p)
       ELSE h

-----------------------------------------------------------------------------
(* The pipelines. *)

GENERAL_EXPLORATIONS_ORDER == << "BasicExploration", "ValueCountsPlot" >>

DEFAULT_NUMERIC_EXPLORATIONS_ORDER ==
    << "BasicNumericExploration", "SkewnessTest", "ShapiroWilkNormalityTest",
       "DagostinoNormalityTest", "SuspiciousNumbersCheck" >>

\* the list `stages` built by the executing pipeline function
stages ==
    IF pipeline = "general" THEN GENERAL_EXPLORATIONS_ORDER
    ELSE IF pipeline = "numeric" THEN DEFAULT_NUMERIC_EXPLORATIONS_ORDER
    ELSE << >>

\* the p-values the library can return to check c now: the one it returned
\* before for this series, if any (the tests are deterministic)
LibraryPValues(c) ==
    IF c \notin Tests THEN {Unknown}
    ELSE IF pvalue[c] # Unknown THEN {pvalue[c]}
    ELSE PValues

-----------------------------------------------------------------------------
(* core.py: the function-based drivers.  The execution record k holds the *)
(* messages passed to custom_print and the calls of _explore_series made   *)
(* (out), the exception raised, and the print settings in force: whether   *)
(* PRINT_TO_SCREEN is set (to_screen) and the state of the file object in  *)
(* OUTPUT_F (f: "None", "open" or "closed").                               *)

\* what the name would hold if it followed util.OUTPUT_F, against which the
\* configuration error is tested
util_OUTPUT_F == OUTPUT_F

\* the name OUTPUT_F of core.py: bound once, by the import, to the value
\* util.OUTPUT_F has when the package is loaded; set_output_f never rebinds it
core_OUTPUT_F == "None"

core_raise(k, x) == IF k.exc # "none" THEN k ELSE [k EXCEPT !.exc = x]

core_call(k, fn, label) ==
    IF k.exc # "none" THEN k
    ELSE [k EXCEPT !.out = Append(@, Ev("call", fn, label, <<>>))]

\* util.custom_print (also behind bold and comment): the screen first, then
\* the file object, whose write raises ValueError once it is closed
core_print(k, fn, tag, v) ==
    IF k.exc # "none" THEN k
    ELSE LET k1 == [k EXCEPT !.out = Append(@, Ev("print", fn, tag, v))]
         IN IF k.f = "closed"
            THEN [k1 EXCEPT !.exc = "ValueError(closed file)"]
            ELSE k1

_val_counts_plot(k, vcounts) ==
    LET fn == "_val_counts_plot" IN
    IF Cardinality(DOMAIN vcounts) < 2 THEN core_print(k, fn, "skip_one_unique", <<>>)
    ELSE IF iloc0(vcounts) < 3 THEN core_print(k, fn, "skip_low_frequency", <<>>)
    ELSE LET n == Cardinality(DOMAIN vcounts)
         IN core_print(k, fn, "barplot", <<IF n > 10 THEN 10 ELSE n>>)

_explore_numeric_series(k, series) ==
    LET fn == "_explore_numeric_series"
        nona == dropna(series)
        numeric == issubdtype_number(series)
    IN IF numeric = "TypeError" THEN core_raise(k, "TypeError")
       ELSE IF numeric = "False" THEN k
       ELSE IF len(nona) < 4 THEN core_print(k, fn, "skip_numeric", <<>>)
       ELSE LET k1 == core_print(k, fn, "numeric_start", <<>>)
                k2 == core_print(k1, fn, "alpha", <<DEF_ALPHA>>)
                k3 == core_print(k2, fn, "mean_std", <<>>)
                k4 == core_print(k3, fn, "robust_intro", <<>>)
                k5 == core_print(k4, fn, "median_mad", <<>>)
                k6 == core_print(k5, fn, "skewness", <<>>)
                k7 == IF len(nona) < 8
                      THEN core_print(k6, fn, "skip_skewtest", <<>>)
                      ELSE core_print(core_print(core_print(k6,
                               fn, "skewtest_intro", <<>>),
                               fn, "skewtest_result", <<>>),
                               fn, "skewtest_verdict", <<>>)
                k8 == core_print(k7, fn, "normality_intro", <<>>)
                k9 == IF len(nona) > 5000
                      THEN core_print(k8, fn, "skip_shapiro", <<>>)
                      ELSE core_print(core_print(core_print(core_print(k8,
                               fn, "shapiro_intro", <<>>),
                               fn, "shapiro_null_hypothesis", <<>>),
                               fn, "shapiro_result", <<>>),
                               fn, "shapiro_verdict", <<>>)
            IN IF len(nona) < 8
               THEN core_print(k9, fn, "skip_dagostino", <<>>)
               ELSE core_print(core_print(core_print(k9,
                        fn, "dagostino_intro", <<>>),
                        fn, "dagostino_result", <<>>),
                        fn, "dagostino_verdict", <<>>)

_explore_series(k, series, label) ==
    LET fn == "_explore_series"
        k0 == core_call(k, fn, label)
        k1 == core_print(k0, fn, "header", <<>>)
        k2 == core_print(k1, fn, "starting", <<>>)
        k3 == core_print(k2, fn, "dtype", <<>>)
        count == len(series)
        k4 == core_print(k3, fn, "unique", <<len_unique(series), count>>)
        count_na == count_isna(series)
    IN IF count = 0 THEN core_raise(k4, "ZeroDivisionError")
       ELSE LET k5 == core_print(k4, fn, "missing",
                                 <<percent(count_na, count), count_na>>)
                k6 == _val_counts_plot(k5, value_counts(series))
            IN _explore_numeric_series(k6, series)

-----------------------------------------------------------------------------
(* The inputs of the table driver. *)

Labels == << "a", "b", "c", "d" >>

\* the kinds of column a dataframe of the model is built from: a numeric
\* column without missing entries, a text column, a categorical column and
\* a text column with missing entries, all of the same length, and an empty
\* numeric column
FullColumn == [dtype |-> "number", na |-> 0, cnt |-> [v \in Values |-> MaxCount]]
HoleyColumn ==
    [dtype |-> "category", na |-> MaxNa,
     cnt |-> [v \in Values |-> IF v = NumVals THEN MaxCount - MaxNa ELSE MaxCount]]
TextColumn == [FullColumn EXCEPT !.dtype = "object"]
HoleyTextColumn == [HoleyColumn EXCEPT !.dtype = "object"]
EmptyColumn == [dtype |-> "number", na |-> 0, cnt |-> [v \in Values |-> 0]]
TableColumns == {FullColumn, TextColumn, HoleyColumn, HoleyTextColumn, EmptyColumn}

\* df: the columns in declared order, all of the same length; column i
\* carries the label Labels[i]
Tables ==
    {df \in UNION {[1 .. n -> TableColumns] : n \in 0 .. MaxCols} :
        \A i, j \in DOMAIN df : len(df[i]) = len(df[j])}

\* the skip conditions a caller passes: has_missing(col) is col.isna().any();
\* positive_mean(col) is col.mean() > 0, which raises TypeError on a column
\* that is not numeric
Conds == {"has_missing", "positive_mean"}

cond(c, col) ==
    IF c = "has_missing" THEN (IF col.na > 0 THEN "True" ELSE "False")
    ELSE IF col.dtype # "number" THEN "TypeError"
    ELSE IF len(dropna(col)) > 0 THEN "True" ELSE "False"

\* skip_lbl: None or a list of labels
SkipLabels ==
    {[given |-> FALSE, labels |-> {}]}
        \cup {[given |-> TRUE, labels |-> L] : L \in SUBSET {Labels[1], Labels[2]}}

\* skip_cond: None, one callable, or a list of callables
SkipConds ==
    {[kind |-> "None", conds |-> << >>]}
        \cup {[kind |-> "callable", conds |-> << c >>] : c \in Conds}
        \cup {[kind |-> "list", conds |-> << >>]}
        \cup {[kind |-> "list", conds |-> << c >>] : c \in Conds}
        \cup {[kind |-> "list", conds |-> << q[1], q[2] >>] :
                  q \in {r \in Conds \X Conds : r[1] # r[2]}}

\* [cond(col) for cond in skip_cond]: "TypeError" when a condition raises it,
\* else whether any condition returned True
RECURSIVE any_cond(_, _, _)
any_cond(conds, col, i) ==
    IF i > Len(conds) THEN "False"
    ELSE LET r == cond(conds[i], col)
             rest == any_cond(conds, col, i + 1)
         IN IF r = "TypeError" \/ rest = "TypeError" THEN "TypeError"
            ELSE IF r = "True" THEN "True" ELSE rest

\* the for loop of _explore_df from column i on; the record carries the
\* counter `skipped`
RECURSIVE df_loop(_, _, _, _, _)
df_loop(k, df, skip_lbl, skip_cond, i) ==
    IF i > Len(df) \/ k.exc # "none" THEN k
    ELSE LET fn == "_explore_df"
             col == df[i]
             col_lbl == Labels[i]
             skip(kk) == [core_print(kk, fn, "skipping", <<i>>)
                            EXCEPT !.skipped = IF kk.exc = "none" /\ kk.f # "closed"
                                               THEN @ + 1 ELSE @]
             \* `col_lbl in skip_lbl` raises TypeError when skip_lbl is None
             in_lbl == skip_lbl.given /\ col_lbl \in skip_lbl.labels
             \* iterating skip_cond raises TypeError when it is None
             any == IF skip_cond.kind = "None" THEN "TypeError"
                    ELSE any_cond(skip_cond.conds, col, 1)
             first == _explore_series(k, col, col_lbl)
             k1 == IF in_lbl THEN skip(k)
                   ELSE IF any = "True" THEN skip(k)
                   ELSE IF any = "TypeError" THEN first
                   ELSE IF first.exc = "TypeError"
                        \* the handler of the second try block explores again
                        THEN _explore_series([first EXCEPT !.exc = "none"], col, col_lbl)
                        ELSE first
         IN df_loop(k1, df, skip_lbl, skip_cond, i + 1)

_explore_df(k, df, skip_lbl, skip_cond) ==
    LET fn == "_explore_df"
        k1 == core_print(k, fn, "starting", <<>>)
        k2 == core_print(k1, fn, "columns", <<Len(df)>>)
        k3 == core_print(k2, fn, "rows", <<>>)
        k4 == df_loop(k3, df, skip_lbl, skip_cond, 1)
    IN IF k4.skipped > 0 THEN core_print(k4, fn, "summary", <<k4.skipped>>)
       ELSE k4

NoCall ==
    [fn |-> "none", phase |-> "idle", silent |-> FALSE, output_path |-> "None",
     df |-> << >>, skip_lbl |-> [given |-> FALSE, labels |-> {}],
     skip_cond |-> [kind |-> "None", conds |-> << >>],
     out |-> << >>, exc |-> "none"]

InitCore ==
    /\ PRINT_TO_SCREEN = TRUE
    /\ OUTPUT_F = "None"
    /\ files = {"out.txt"}
    /\ opened = {}
    /\ last = NoCall

InitPipe ==
    /\ pdexplore = NoAttr
    /\ pvalue = [c \in Tests |-> Unknown]
    /\ pipeline = "none"
    /\ stage = 0
    /\ log = << >>
    /\ runs = << >>

Init ==
    /\ srs \in Columns
    /\ InitPipe
    /\ InitCore

\* general_exploration(series): the stages are instantiated
general_exploration ==
    /\ pipeline = "none"
    /\ pipeline' = "general"
    /\ stage' = 1
    /\ log' = << >>
    /\ UNCHANGED <<srs, pdexplore, pvalue, runs>>
    /\ UNCHANGED coreVars

\* run_numeric_exploration_pipeline(srs): the stages are instantiated
run_numeric_exploration_pipeline ==
    /\ pipeline = "none"
    /\ pipeline' = "numeric"
    /\ stage' = 1
    /\ log' = << >>
    /\ UNCHANGED <<srs, pdexplore, pvalue, runs>>
    /\ UNCHANGED coreVars

\* one iteration of `for stage in stages: stage.apply(srs)`; the pipeline
\* function returns after the last stage, or ends with the exception raised
apply_stage ==
    /\ pipeline # "none"
    /\ stage <= Len(stages)
    /\ LET c == stages[stage] IN
       \E p \in LibraryPValues(c) :
          LET s == [cache |-> pdexplore, log |-> log, exc |-> "none", val |-> TRUE]
              r == apply(c, srs, s, p)
              over == r.exc # "none" \/ stage = Len(stages)
          IN /\ pdexplore' = r.cache
             /\ log' = r.log
             /\ pvalue' = IF \E i \in 1 .. Len(r.log) :
                               r.log[i].e = "body" /\ r.log[i].c = c /\ c \in Tests
                          THEN [pvalue EXCEPT ![c] = p]
                          ELSE pvalue
             /\ IF over
                THEN /\ runs' = Remember(runs, [pipeline |-> pipeline, log |-> r.log,
                                                exc |-> r.exc, cache |-> r.cache])
                     /\ pipeline' = "none"
                     /\ stage' = 0
                ELSE /\ runs' = runs
                     /\ pipeline' = pipeline
                     /\ stage' = stage + 1
    /\ UNCHANGED srs
    /\ UNCHANGED coreVars

Next ==
    \/ general_exploration
    \/ run_numeric_exploration_pipeline
    \/ apply_stage

Spec == Init /\ [][Next]_vars

-----------------------------------------------------------------------------
(* core.py: explore and explore_series. *)

Dirs == {"outdir"}
OutputPaths == {"None", "out.txt", "outdir", "missing.txt"}

\* the file get_output_fpath names inside a directory (label and time fixed)
GeneratedFile == "outdir/pdexplore_None.txt"

\* util.get_output_fpath: "ValueError" when the path is neither an existing
\* directory nor an existing file
get_output_fpath(output_fpath) ==
    IF output_fpath \in Dirs THEN GeneratedFile
    ELSE IF output_fpath \in files THEN output_fpath
    ELSE "ValueError"

\* the state of the file object util.OUTPUT_F refers to
OutputState(of, op) ==
    IF of = "None" THEN "None" ELSE IF of \in op THEN "open" ELSE "closed"

\* the messages of a call's out
Messages(out) == {i \in 1 .. Len(out) : out[i].e = "print"}

\* what the last call wrote to the file it opened: every message, as the file
\* is emptied when opened and open until the call ends
Written(call) == IF call.output_path # "None" THEN Messages(call.out) ELSE {}

\* explore, up to its call of _explore_df: the print flag is set, then the
\* output file is resolved, opened and installed, or the call fails
explore ==
    /\ last.phase # "running"
    /\ \E silent \in BOOLEAN, output_path \in OutputPaths :
          LET call == [NoCall EXCEPT !.fn = "explore", !.silent = silent,
                                     !.output_path = output_path]
              fpath == get_output_fpath(output_path)
          IN /\ PRINT_TO_SCREEN' = ~ silent
             /\ IF output_path # "None"
                THEN IF fpath = "ValueError"
                     THEN /\ last' = [call EXCEPT !.phase = "raised",
                                                  !.exc = "ValueError(bad path)"]
                          /\ UNCHANGED <<OUTPUT_F, files, opened>>
                     ELSE \* open(output_path, 'wt+') creates the file or empties
                          \* it; set_output_f(out_f)
                          /\ files' = files \cup {fpath}
                          /\ opened' = opened \cup {fpath}
                          /\ OUTPUT_F' = fpath
                          /\ last' = [call EXCEPT !.phase = "running"]
                ELSE /\ UNCHANGED <<OUTPUT_F, files, opened>>
                     /\ IF core_OUTPUT_F = "None" /\ silent
                        THEN last' = [call EXCEPT !.phase = "raised",
                                                  !.exc = "ValueError(silent)"]
                        ELSE last' = [call EXCEPT !.phase = "running"]
    /\ UNCHANGED pipeVars

\* the call of _explore_df made by explore, and the end of explore: the with
\* block closes the file it opened, whether or not an exception passes
explore_df ==
    /\ last.phase = "running"
    /\ \E df \in Tables, skip_lbl \in SkipLabels, skip_cond \in SkipConds :
          LET k == [out |-> << >>, exc |-> "none", skipped |-> 0,
                    to_screen |-> PRINT_TO_SCREEN,
                    f |-> OutputState(OUTPUT_F, opened)]
              r == _explore_df(k, df, skip_lbl, skip_cond)
          IN /\ last' = [last EXCEPT !.phase = IF r.exc = "none" THEN "returned"
                                               ELSE "raised",
                                     !.df = df, !.skip_lbl = skip_lbl,
                                     !.skip_cond = skip_cond,
                                     !.out = r.out, !.exc = r.exc]
             /\ IF last.output_path # "None"
                THEN opened' = opened \ {OUTPUT_F}
                ELSE UNCHANGED opened
    /\ UNCHANGED <<PRINT_TO_SCREEN, OUTPUT_F, files>>
    /\ UNCHANGED pipeVars

\* explore_series: the print flag is set; with an output path the call of
\* get_output_fpath passes the keyword laebl, which it does not take; without
\* one the call of _explore_series passes the keyword df, which it does not take
explore_series ==
    /\ last.phase # "running"
    /\ \E series \in TableColumns, silent \in BOOLEAN, output_path \in OutputPaths :
          LET call == [NoCall EXCEPT !.fn = "explore_series", !.silent = silent,
                                     !.output_path = output_path,
                                     !.df = << series >>, !.phase = "raised"]
          IN /\ PRINT_TO_SCREEN' = ~ silent
             /\ IF output_path # "None"
                THEN last' = [call EXCEPT !.exc = "TypeError"]
                ELSE IF core_OUTPUT_F = "None" /\ silent
                     THEN last' = [call EXCEPT !.exc = "ValueError(silent)"]
                     ELSE last' = [call EXCEPT !.exc = "TypeError"]
    /\ UNCHANGED <<OUTPUT_F, files, opened>>
    /\ UNCHANGED pipeVars

InitDrivers ==
    /\ srs = EmptyColumn
    /\ InitPipe
    /\ InitCore

NextDrivers ==
    \/ explore
    \/ explore_df
    \/ explore_series

SpecDrivers == InitDrivers /\ [][NextDrivers]_vars

-----------------------------------------------------------------------------
(* Properties. *)

EventsOf(lg, e, c) == {i \in 1 .. Len(lg) : lg[i].e = e /\ lg[i].c = c}

\* a pipeline function has ended (normally or with an exception) and no
\* other has started since
Finished == pipeline = "none" /\ runs # << >>
LastRun == runs[Len(runs)]

\* the number of non-missing values of the series
NonMissing == len(dropna(srs))

\* a call of explore or explore_series has ended
CallEnded == last.fn # "none" /\ last.phase # "running"

(* C1: a call of explore or of explore_series with silent=true and no      *)
(* output path fails with the configuration error before anything is done: *)
(* no column is explored or skipped and no message is reported.            *)
C1_SilentWithoutPathFails ==
    (last.fn # "none" /\ last.silent /\ last.output_path = "None")
        => /\ last.phase = "raised"
           /\ last.exc = "ValueError(silent)"
           /\ last.out = << >>

\* explore called silent and without a path while util.OUTPUT_F still holds
\* the file object of an earlier call
C1_Witness ==
    /\ last.fn = "explore" /\ last.silent /\ last.output_path = "None"
    /\ last.phase = "raised"
    /\ OUTPUT_F # "None"

(* C2: for a table with N columns of which M carry a label of the skip     *)
(* labels and K of the others match a skip condition, the table driver     *)
(* emits exactly M+K skip messages, explores exactly the other N-M-K       *)
(* columns and ends with one summary line reporting M+K (none when         *)
(* M+K = 0).                                                               *)
DriverRan ==
    /\ last.fn = "explore"
    /\ last.phase \in {"returned", "raised"}
    /\ last.exc \notin {"ValueError(silent)", "ValueError(bad path)"}

SkippedByLabel ==
    {i \in 1 .. Len(last.df) : last.skip_lbl.given /\ Labels[i] \in last.skip_lbl.labels}

SkippedByCond ==
    {i \in (1 .. Len(last.df)) \ SkippedByLabel :
        \E j \in 1 .. Len(last.skip_cond.conds) :
            cond(last.skip_cond.conds[j], last.df[i]) = "True"}

OutEvents(e, a) ==
    {i \in 1 .. Len(last.out) : last.out[i].e = e /\ last.out[i].a = a}

C2_SkipCounting ==
    DriverRan =>
        LET MK == Cardinality(SkippedByLabel) + Cardinality(SkippedByCond)
            summaries == OutEvents("print", "summary")
        IN /\ Cardinality(OutEvents("print", "skipping")) = MK
           /\ \A i \in 1 .. Len(last.df) :
                 (OutEvents("call", Labels[i]) # {})
                     <=> (i \notin SkippedByLabel \cup SkippedByCond)
           /\ MK = 0 => summaries = {}
           /\ MK > 0 => /\ summaries = {Len(last.out)}
                        /\ last.out[Len(last.out)].v = << MK >>

(* C3, as claimed: on a column with fewer than 4 non-missing values the     *)
(* body of none of the five numeric checks executes.                       *)
CountGatedChecks ==
    {"BasicNumericExploration", "SkewnessTest", "ShapiroWilkNormalityTest",
     "DagostinoNormalityTest"}

C3_AllFiveSkipped ==
    NonMissing < 4 =>
        \A c \in CountGatedChecks \cup {"SuspiciousNumbersCheck"} :
            EventsOf(log, "body", c) = {}

(* C3, amended: on a column with fewer than 4 non-missing values the body   *)
(* of the basic-numeric check, the skewness test, the Shapiro-Wilk test    *)
(* and the D'Agostino test does not execute; the suspicious-integer check  *)
(* is gated by the dtype alone, and once the numeric pipeline has ended    *)
(* its body has executed iff the dtype is numeric.                         *)
C3_CountGatedSkipped ==
    NonMissing < 4 =>
        /\ \A c \in CountGatedChecks : EventsOf(log, "body", c) = {}
        /\ (Finished /\ LastRun.pipeline = "numeric")
              => ((EventsOf(log, "body", "SuspiciousNumbersCheck") # {})
                     <=> srs.dtype = "number")

C3_Witness ==
    /\ Finished /\ LastRun.pipeline = "numeric"
    /\ srs.dtype = "number" /\ NonMissing = 3
    /\ \A c \in CountGatedChecks : EventsOf(log, "skip", c) # {}
    /\ EventsOf(log, "body", "SuspiciousNumbersCheck") # {}

(* C4, as claimed: an apply in which a precondition fails leaves the cache *)
(* exactly as it was; after the numeric pipeline has run on a column with  *)
(* fewer than 4 non-missing values the cache holds no numeric key.         *)
NumericKeys ==
    {"nona", "skewness", "skew_zscore", "skew_pval", "normal_skewness",
     "shapiro_stat", "shapiro_pval", "shapiro_normal",
     "dag_stat", "dag_pval", "dagostino_normal"}

CacheKeys(cache) == IF cache = NoAttr THEN {} ELSE DOMAIN cache[1]

\* the step is an apply in which a precondition of check c failed
SkipStep(c) ==
    /\ pipeline # "none"
    /\ \E i \in (Len(log) + 1) .. Len(log') : log'[i].e = "skip" /\ log'[i].c = c

AllChecks == CountGatedChecks \cup {"BasicExploration", "ValueCountsPlot", "SuspiciousNumbersCheck"}

FirstRun ==
    \/ pipeline # "none" /\ runs = << >>
    \/ pipeline = "none" /\ Len(runs) = 1

ReadsFollowWrites ==
    \A i \in 1 .. Len(log) :
        log[i].e = "read" =>
            \E j \in 1 .. (i - 1) : log[j].e = "save" /\ log[j].a = log[i].a

C5_RunNeverRaises ==
    FirstRun =>
        /\ \A i \in 1 .. Len(log) : log[i].e # "raise"
        /\ ReadsFollowWrites

(* C6: after a call made with an output path has completed, the current    *)
(* output stream is none, and a later call made without an output path     *)
(* does not fail on the file stream of an earlier call.                    *)
C6_OutputStreamReset ==
    /\ (CallEnded /\ last.phase = "returned" /\ last.output_path # "None")
          => OUTPUT_F = "None"
    /\ (CallEnded /\ last.output_path = "None")
          => last.exc # "ValueError(closed file)"

(* C7: when a run starts the cache holds no entry written by a previous    *)
(* run, and no check of a run reads a value computed in an earlier run.    *)
C7_CacheDiscardedAtRunStart ==
    /\ (pipeline # "none" /\ stage = 1) => CacheKeys(pdexplore) = {}
    /\ ReadsFollowWrites

(* C8: _preconditions_hold short-circuits: at the first precondition that  *)
(* returns false it reports the one message "<name> skipped. Reason:       *)
(* <fail_msg>." for that precondition and evaluates no further one; the    *)
(* body executes iff every declared precondition was evaluated and         *)
(* returned true.                                                          *)
EventSeq(lg, e, c) == SelectSeq(lg, LAMBDA ev : ev.e = e /\ ev.c = c)

C8_ShortCircuit ==
    \A c \in AllChecks :
        LET pre == EventSeq(log, "pre", c)
            ret == EventSeq(log, "ret", c)
            skips == EventsOf(log, "skip", c)
            bodies == EventsOf(log, "body", c)
            raised == EventsOf(log, "raise", c)
            declared == preconditions(c)
            allTrue == /\ Len(ret) = Len(declared)
                       /\ \A k \in 1 .. Len(ret) : ret[k].a = "True"
        IN \* the preconditions are evaluated in their order, each at most once
           /\ Len(pre) <= Len(declared)
           /\ \A k \in 1 .. Len(pre) : pre[k].a = declared[k]
           \* a false result is followed at once by the skip message of that
           \* precondition, and by no other evaluation and no body
           /\ \A i \in 1 .. Len(log) :
                 (log[i].e = "ret" /\ log[i].c = c /\ log[i].a = "False")
                    => /\ i < Len(log)
                       /\ log[i + 1] = Ev("skip", c,
                              name(c) \o " skipped. Reason: "
                                      \o fail_msg(c, pre[Len(pre)].a) \o ".", <<>>)
                       /\ \A j \in (i + 1) .. Len(log) :
                             log[j].c = c => log[j].e = "skip"
                       /\ Len(ret) = Len(pre)
           \* one skip message at most, and only after a false result
           /\ Cardinality(skips) <= 1
           /\ \A j \in skips : j > 1 /\ log[j - 1] = Ev("ret", c, "False", <<>>)
           \* the body executes iff all declared preconditions returned true
           /\ bodies # {} => allTrue /\ skips = {}
           /\ (EventsOf(log, "apply", c) # {} /\ allTrue) => bodies # {}

\* the skewness test skipped on its count precondition, its dtype
\* precondition never evaluated
C8_Witness ==
    /\ \E j \in EventsOf(log, "skip", "SkewnessTest") :
          log[j].a = "Skewness test skipped. Reason: Less than eight non-null values."
    /\ Len(EventSeq(log, "pre", "SkewnessTest")) = 1
    /\ EventsOf(log, "body", "SkewnessTest") = {}

(* C9: a pipeline run calls apply on each check of its ordered list        *)
(* exactly once, in list order.                                            *)
Applied(lg) ==
    LET a == SelectSeq(lg, LAMBDA ev : ev.e = "apply")
    IN [i \in 1 .. Len(a) |-> a[i].c]

C9_EveryStageApplied ==
    Finished =>
        Applied(LastRun.log) =
            (IF LastRun.pipeline = "general"
             THEN << "BasicExploration", "ValueCountsPlot" >>
             ELSE << "BasicNumericExploration", "SkewnessTest",
                     "ShapiroWilkNormalityTest", "DagostinoNormalityTest",
                     "SuspiciousNumbersCheck" >>)

(* C10: the value-counts plot executes its body iff the column has at      *)
(* least 2 distinct (non-missing) values and its most frequent value       *)
(* occurs more than 2 times; otherwise it is skipped with the reason of    *)
(* the condition that failed.                                              *)
Distinct == Cardinality({v \in Values : srs.cnt[v] > 0})
TopCount == MaxOver(srs.cnt, Values)

C10_ValueCountsPlotGate ==
    LET c == "ValueCountsPlot"
        skipped(msg) == \E j \in EventsOf(log, "skip", c) : log[j].a = msg
    IN EventsOf(log, "apply", c) # {} =>
          /\ (EventsOf(log, "body", c) # {}) <=> (Distinct >= 2 /\ TopCount > 2)
          /\ Distinct < 2 =>
                skipped("Value counts plot skipped. Reason: Less than two uniqe values.")
          /\ (Distinct >= 2 /\ TopCount <= 2) =>
                skipped("Value counts plot skipped. Reason: Low frequency of most-frequent value.")

\* the boundary: the plot is drawn for a most frequent value occurring 3 times
C10_Witness ==
    /\ EventsOf(log, "body", "ValueCountsPlot") # {}
    /\ Distinct = 2 /\ TopCount = 3

-----------------------------------------------------------------------------
(* The pipelines on sample series: series whose values are the integers    *)
(* themselves (cnt maps each value present to its number of occurrences),  *)
(* chosen at the thresholds of the checks.                                 *)

\* a numeric series of n equal values, without or with one missing entry
ThresholdColumns ==
    {[dtype |-> "number", na |-> na, cnt |-> (1 :> n)] :
        n \in {3, 4, 7, 8, 5000, 5001}, na \in {0, 1}}

\* the series [1, 2, 2, 3, 3, 3, NaN]
SixAndNaN ==
    [dtype |-> "number", na |-> 1, cnt |-> (1 :> 1) @@ (2 :> 2) @@ (3 :> 3)]

\* series holding suspicious integers, or of a suspicious length
SuspiciousColumns ==
    {[dtype |-> "number", na |-> 0, cnt |-> (127 :> 2) @@ (99 :> 1) @@ (5 :> 4)],
     [dtype |-> "number", na |-> 0, cnt |-> ((0 - 128) :> 3) @@ (65535 :> 1)],
     [dtype |-> "number", na |-> 0, cnt |-> (5 :> 99)],
     [dtype |-> "number", na |-> 0, cnt |-> (5 :> 127)],
     [dtype |-> "number", na |-> 1, cnt |-> (255 :> 254)]}

SampleColumns == ThresholdColumns \cup {SixAndNaN} \cup SuspiciousColumns

InitSamples ==
    /\ srs \in SampleColumns
    /\ InitPipe
    /\ InitCore

SpecSamples == InitSamples /\ [][Next]_vars

(* C11: in the numeric pipeline, on a numeric column with n non-missing    *)
(* values, the skewness test and the D'Agostino test execute iff n >= 8    *)
(* and the Shapiro-Wilk test executes iff 4 <= n <= 5000.                  *)
C11_CountThresholds ==
    srs.dtype = "number" =>
        \A c \in Tests :
            EventsOf(log, "apply", c) # {} =>
                ((EventsOf(log, "body", c) # {})
                    <=> IF c = "ShapiroWilkNormalityTest"
                        THEN 4 <= NonMissing /\ NonMissing <= 5000
                        ELSE NonMissing >= 8)

\* 5001 non-missing values: the Shapiro-Wilk test is skipped, the two
\* others have run
C11_Witness ==
    /\ Finished /\ LastRun.pipeline = "numeric"
    /\ NonMissing = 5001
    /\ \E j \in EventsOf(log, "skip", "ShapiroWilkNormalityTest") :
          log[j].a = "Shapiro-Wilk normality test skipped. Reason: More than 5000 non-null values."
    /\ EventsOf(log, "body", "SkewnessTest") # {}
    /\ EventsOf(log, "body", "DagostinoNormalityTest") # {}

(* C12: the Basic check reports the total number of entries, the number of *)
(* missing entries and the number of distinct values counted over the      *)
(* non-missing entries: a missing entry is never counted as a distinct     *)
(* value; for [1, 2, 2, 3, 3, 3, NaN] it reports 7 entries, 1 missing and 3 *)
(* distinct values.                                                        *)
BasicReports(tag) ==
    {i \in 1 .. Len(log) :
        log[i].e = "print" /\ log[i].c = "BasicExploration" /\ log[i].a = tag}

C12_DistinctOverNonMissing ==
    /\ \A i \in BasicReports("unique") :
          log[i].v = << Cardinality(DOMAIN value_counts(srs)), len(srs) >>
    /\ \A i \in BasicReports("missing") : log[i].v[2] = count_isna(srs)
    /\ (srs = SixAndNaN /\ Finished /\ LastRun.pipeline = "general")
          => /\ \E i \in BasicReports("unique") : log[i].v = << 3, 7 >>
             /\ \E i \in BasicReports("missing") : log[i].v[2] = 1

(* C13: a call of explore or of explore_series whose output path names     *)
(* neither an existing file nor an existing directory fails with the       *)
(* invalid-path error before any exploration begins: nothing is explored,  *)
(* reported or written.                                                    *)
\* "missing.txt" is the output path that names nothing: it is no directory,
\* no file at the start, and no call creates it
NamesNothing(output_path) == output_path = "missing.txt"

C13_InvalidPathFails ==
    (last.fn # "none" /\ NamesNothing(last.output_path))
        => /\ last.phase = "raised"
           /\ last.exc = "ValueError(bad path)"
           /\ last.out = << >>

(* C14: a call of explore or of explore_series given an output path to a   *)
(* file that does not exist yet creates the file and writes the output to  *)
(* it; the call does not fail because the file is missing.                 *)
C14_MissingFileCreated ==
    (CallEnded /\ NamesNothing(last.output_path))
        => /\ last.output_path \in files
           /\ last.exc # "ValueError(bad path)"

(* C15: explore_series called with silent=false, with or without an        *)
(* existing output path, runs to completion without error and drives the   *)
(* column: the labelled section header first, then the general checks,     *)
(* then the numeric checks.                                                *)
C15_ExploreSeriesCompletes ==
    (last.fn = "explore_series" /\ ~ last.silent
            /\ ~ NamesNothing(last.output_path))
        => /\ last.phase = "returned"
           /\ last.exc = "none"
           /\ Len(last.out) >= 2
           /\ last.out[1].e = "call" /\ last.out[1].c = "_explore_series"
           /\ last.out[2] = Ev("print", "_explore_series", "header", << >>)

(* C16: in every call of explore that returns, a column is skipped iff its *)
(* label is in skip_lbl or at least one skip condition is true on it, and  *)
(* is explored otherwise; this with skip_lbl and skip_cond absent (nothing *)
(* is skipped) and with a single condition in place of a list.             *)
ColumnSkipped(i) ==
    \E j \in OutEvents("print", "skipping") : last.out[j].v = << i >>

C16_SkipIffLabelOrCond ==
    (DriverRan /\ last.phase = "returned") =>
        \A i \in 1 .. Len(last.df) :
            /\ ColumnSkipped(i) <=> (i \in SkippedByLabel \cup SkippedByCond)
            /\ (OutEvents("call", Labels[i]) # {}) <=> ~ ColumnSkipped(i)

(* C17: running the same pipeline twice in a row on the series gives in the *)
(* second run the same sequence of reports and skip messages as in the     *)
(* first, and leaves the cache as the first run left it.                   *)
Reports(lg) == SelectSeq(lg, LAMBDA ev : ev.e \in {"print", "skip"})

\* `for stage in stages: stage.apply(srs)` from stage i on, as one
\* computation; pv gives the p-value the library returns to each test
RECURSIVE run_stages(_, _, _, _, _)
run_stages(order, x, s, pv, i) ==
    IF i > Len(order) \/ s.exc # "none" THEN s
    ELSE LET c == order[i]
         IN run_stages(order, x,
                       apply(c, x, s, IF c \in Tests THEN pv[c] ELSE Unknown),
                       pv, i + 1)

\* a whole pipeline run on series x, started with the given cache
run_pipeline(order, x, cache, pv) ==
    run_stages(order, x,
               [cache |-> cache, log |-> << >>, exc |-> "none", val |-> TRUE],
               pv, 1)

\* the p-values the library can return for srs, given those it has returned
KnownPValues ==
    {pv \in [Tests -> PValues] :
        \A c \in Tests : pvalue[c] # Unknown => pv[c] = pvalue[c]}

C17_SamePipelineTwice ==
    \* the last two runs were runs of the same pipeline
    /\ (Finished /\ Len(runs) = 2 /\ runs[1].pipeline = runs[2].pipeline)
          => /\ Reports(runs[2].log) = Reports(runs[1].log)
             /\ runs[2].exc = runs[1].exc
             /\ runs[2].cache = runs[1].cache
    \* the last two runs were general, then numeric: running the two again
    /\ (Finished /\ Len(runs) = 2 /\ runs[1].pipeline = "general"
                /\ runs[2].pipeline = "numeric")
          => \A pv \in KnownPValues :
                LET g == run_pipeline(GENERAL_EXPLORATIONS_ORDER, srs, pdexplore, pv)
                    n == run_pipeline(DEFAULT_NUMERIC_EXPLORATIONS_ORDER, srs,
                                      g.cache, pv)
                IN /\ Reports(g.log) = Reports(runs[1].log)
                   /\ g.exc = runs[1].exc
                   /\ Reports(n.log) = Reports(runs[2].log)
                   /\ n.exc = runs[2].exc
                   /\ n.cache = runs[2].cache

\* two numeric runs in a row that executed every check, the first of which
\* computed the frequency table and the second of which found it cached
C17_Witness ==
    /\ Finished /\ Len(runs) = 2
    /\ runs[1].pipeline = "numeric" /\ runs[2].pipeline = "numeric"
    /\ runs[2].exc = "none"
    /\ NonMissing >= 8
    /\ \E i \in 1 .. Len(runs[1].log) :
          runs[1].log[i] = Ev("save", "BasicNumericExploration", "vcounts", << >>)
    /\ \A i \in 1 .. Len(runs[2].log) :
          runs[2].log[i] # Ev("save", "BasicNumericExploration", "vcounts", << >>)

(* C18: when the suspicious-integer check has run on a numeric column, for *)
(* every value d of the table (the machine-integer bounds and the          *)
(* all-nines sentinels) a warning for d has been emitted iff d appears in  *)
(* the frequency table of the column or d equals the length of the column; *)
(* a warning for a value that appears states its count.                    *)
DangerousIntegers ==
    {SUSPICIOUS_COMPUTING_INT_DICT[k] : k \in DOMAIN SUSPICIOUS_COMPUTING_INT_DICT}
        \cup {AllNines[k] : k \in DOMAIN AllNines}

WarningsFor(d) ==
    {i \in 1 .. Len(log) :
        /\ log[i].e = "print" /\ log[i].c = "SuspiciousNumbersCheck"
        /\ log[i].v # << >> /\ log[i].v[1] = d}

C18_SuspiciousWarnings ==
    (Finished /\ LastRun.pipeline = "numeric" /\ LastRun.exc = "none"
              /\ EventsOf(log, "body", "SuspiciousNumbersCheck") # {})
        => \A d \in DangerousIntegers :
              /\ (WarningsFor(d) # {})
                    <=> (d \in DOMAIN value_counts(srs) \/ d = len(srs))
              /\ d \in DOMAIN value_counts(srs)
                    => \E i \in WarningsFor(d) :
                          log[i].v = << d, value_counts(srs)[d] >>

(* C19: on a column of non-numeric dtype the body of no check of the       *)
(* numeric pipeline executes, whatever the number of non-missing values:   *)
(* the dtype precondition declared on the shared base class gates every    *)
(* one of them; on a column of object dtype every check applied is skipped *)
(* with a reported reason.                                                 *)
NumericChecks ==
    {DEFAULT_NUMERIC_EXPLORATIONS_ORDER[k] : k \in DOMAIN DEFAULT_NUMERIC_EXPLORATIONS_ORDER}

C19_DtypeGatesEveryNumericCheck ==
    srs.dtype # "number" =>
        \A c \in NumericChecks :
            /\ EventsOf(log, "body", c) = {}
            /\ (srs.dtype = "object" /\ EventsOf(log, "apply", c) # {})
                  => EventsOf(log, "skip", c) # {}

\* an object column with enough values for every count precondition: all
\* five checks are skipped for the dtype
C19_Witness ==
    /\ Finished /\ LastRun.pipeline = "numeric" /\ LastRun.exc = "none"
    /\ srs.dtype = "object" /\ NonMissing >= 8
    /\ \A c \in NumericChecks :
          \E j \in EventsOf(log, "skip", c) :
              log[j].a = name(c) \o " skipped. Reason: dtype is non-numeric."

(* C20: for each of the skewness, Shapiro-Wilk and D'Agostino tests, with  *)
(* p the p-value of the test and alpha the significance level (DEF_ALPHA,  *)
(* as the pipeline configures none): the null hypothesis is reported       *)
(* rejected and the verdict is cached as false iff p < alpha; for          *)
(* p >= alpha, p = alpha included, the verdict is cached as true.          *)
PValKey(c) ==
    CASE c = "SkewnessTest" -> "skew_pval"
      [] c = "ShapiroWilkNormalityTest" -> "shapiro_pval"
      [] c = "DagostinoNormalityTest" -> "dag_pval"

VerdictKey(c) ==
    CASE c = "SkewnessTest" -> "normal_skewness"
      [] c = "ShapiroWilkNormalityTest" -> "shapiro_normal"
      [] c = "DagostinoNormalityTest" -> "dagostino_normal"

Reported(c, tag) ==
    \E i \in 1 .. Len(log) : log[i] = Ev("print", c, tag, << >>)

C20_VerdictIffBelowAlpha ==
    \A c \in Tests :
        EventsOf(log, "body", c) # {} =>
            LET p == pdexplore[1][PValKey(c)]
            IN /\ p \in PValues
               /\ pdexplore[1][VerdictKey(c)] = ~ (p < DEF_ALPHA)
               /\ Reported(c, "rejected") <=> p < DEF_ALPHA
               /\ Reported(c, "not_rejected") <=> p >= DEF_ALPHA

\* the boundary: a p-value equal to alpha, the verdict cached as true
C20_Witness ==
    \E c \in Tests :
        /\ EventsOf(log, "body", c) # {}
        /\ pdexplore[1][PValKey(c)] = DEF_ALPHA
        /\ pdexplore[1][VerdictKey(c)] = TRUE
        /\ Reported(c, "not_rejected")

-----------------------------------------------------------------------------
(* The save of the two Exploration base classes, called on a column the    *)
(* way the checks call it: SomeExploration.save(srs, key, val).            *)

SaveClasses == {"base.Exploration", "core.Exploration"}

SaveKeys == {"nona", "vcounts", "skewness"}

\* base.py declares save a @staticmethod with the parameters (srs, key, val):
\* the three arguments reach the body, which is the operator save
base_Exploration_save(cache, key, val) ==
    [cache |-> save(cache, key, val), exc |-> "none"]

\* core.py declares save a @classmethod with the same three parameters: the
\* class is bound to the first one (srs), so the call with a column, a key
\* and a value passes four positional arguments to a function of three and
\* raises TypeError before the body runs; the column's cache is not touched
core_Exploration_save(cache, key, val) ==
    [cache |-> cache, exc |-> "TypeError"]

Exploration_save(cls, cache, key, val) ==
    IF cls = "base.Exploration"
    THEN base_Exploration_save(cache, key, val)
    ELSE core_Exploration_save(cache, key, val)

\* one call Exploration.save(srs, key, val) of base.py; log keeps the call
\* and how it ended
base_save ==
    \E key \in SaveKeys, val \in Values :
        LET r == Exploration_save("base.Exploration", pdexplore, key, val)
        IN /\ pdexplore' = r.cache
           /\ log' = << Ev("call", "base.Exploration", key, << val >>),
                        Ev("end", "base.Exploration", r.exc, << >>) >>
           /\ UNCHANGED <<srs, pvalue, pipeline, stage, runs>>
           /\ UNCHANGED coreVars

\* the same call on the Exploration of core.py
core_save ==
    \E key \in SaveKeys, val \in Values :
        LET r == Exploration_save("core.Exploration", pdexplore, key, val)
        IN /\ pdexplore' = r.cache
           /\ log' = << Ev("call", "core.Exploration", key, << val >>),
                        Ev("end", "core.Exploration", r.exc, << >>) >>
           /\ UNCHANGED <<srs, pvalue, pipeline, stage, runs>>
           /\ UNCHANGED coreVars

NextSave ==
    \/ base_save
    \/ core_save

SpecSave == Init /\ [][NextSave]_vars

\* the step is the call cls.save(srs, key, val)
SaveStep(cls, key, val) ==
    /\ Len(log') = 2
    /\ log'[1] = Ev("call", cls, key, << val >>)

\* what the contract asks of such a step
SaveContract(key, val) ==
    /\ log'[2].a = "none"
    /\ pdexplore' # NoAttr
    /\ CacheKeys(pdexplore') = CacheKeys(pdexplore) \cup {key}
    /\ pdexplore'[1][key] = val
    /\ \A k \in CacheKeys(pdexplore) \ {key} : pdexplore'[1][k] = pdexplore[1][k]

(* C21: save(column, key, value) attaches a new cache holding exactly      *)
(* {key: value} to a column that has none, sets key to value in an         *)
(* existing cache (overwriting an earlier value) and leaves every other    *)
(* key unchanged; it never fails; this holds for the save of both          *)
(* Exploration base classes, the one of base.py and the one of core.py.    *)
C21_SaveContract ==
    [][\A cls \in SaveClasses, key \in SaveKeys, val \in Values :
          SaveStep(cls, key, val) => SaveContract(key, val)]_vars

\* the part of C21 that is about base.py alone
BaseSaveContract ==
    [][\A key \in SaveKeys, val \in Values :
          SaveStep("base.Exploration", key, val) => SaveContract(key, val)]_vars

\* base.py's save has overwritten an earlier value next to another key
BaseSaveOverwrote ==
    /\ Len(log) = 2
    /\ log[1] = Ev("call", "base.Exploration", "nona", << 2 >>)
    /\ CacheKeys(pdexplore) = {"nona", "vcounts"}
    /\ pdexplore[1]["nona"] = 2

-----------------------------------------------------------------------------
(* The checks of the table driver beside those of the class pipelines.     *)

\* the general pipeline followed by the numeric pipeline
PipelineChecks == GENERAL_EXPLORATIONS_ORDER \o DEFAULT_NUMERIC_EXPLORATIONS_ORDER

\* the first report the functions of core.py make when they run a check
\* (none of them looks for suspicious integers)
CoreTag(c) ==
    CASE c = "BasicExploration" -> "starting"
      [] c = "ValueCountsPlot" -> "barplot"
      [] c = "BasicNumericExploration" -> "numeric_start"
      [] c = "SkewnessTest" -> "skewtest_intro"
      [] c = "ShapiroWilkNormalityTest" -> "shapiro_intro"
      [] c = "DagostinoNormalityTest" -> "dagostino_intro"
      [] c = "SuspiciousNumbersCheck" -> "none"

CoreFunctions == {"_explore_series", "_val_counts_plot", "_explore_numeric_series"}

\* the positions in out at which the exploration of the column labelled lbl
\* starts check c
CoreStarts(out, lbl, c) ==
    {j \in 1 .. Len(out) :
        /\ out[j].e = "print" /\ out[j].c \in CoreFunctions
        /\ out[j].a = CoreTag(c)
        /\ \E i \in 1 .. j :
              /\ out[i] = Ev("call", "_explore_series", lbl, << >>)
              /\ \A m \in (i + 1) .. j : out[m].e # "call"}

\* general_exploration(col) followed by run_numeric_exploration_pipeline(col)
\* runs the body of check c
ClassRuns(col, c, pv) ==
    LET g == run_pipeline(GENERAL_EXPLORATIONS_ORDER, col, NoAttr, pv)
        n == run_pipeline(DEFAULT_NUMERIC_EXPLORATIONS_ORDER, col, g.cache, pv)
    IN \/ EventsOf(g.log, "body", c) # {}
       \/ g.exc = "none" /\ EventsOf(n.log, "body", c) # {}

\* on the column labelled lbl the functions of core.py run the checks cs in
\* pipeline order, and each of them iff the class pipelines run it
SameChecks(out, col, lbl, cs) ==
    /\ \A a \in cs, pv \in [Tests -> PValues] :
          CoreStarts(out, lbl, PipelineChecks[a]) # {}
              <=> ClassRuns(col, PipelineChecks[a], pv)
    /\ \A a, b \in cs :
          a < b => \A x \in CoreStarts(out, lbl, PipelineChecks[a]),
                      y \in CoreStarts(out, lbl, PipelineChecks[b]) : x < y

(* C22: for every non-skipped column, explore applies the same ordered     *)
(* checks as the general pipeline followed by the numeric pipeline (basic, *)
(* value-counts plot, basic numeric, skewness, Shapiro-Wilk, D'Agostino,   *)
(* suspicious-integer) and makes the same run/skip decision for each check *)
(* as the class-based pipelines make on that column.                       *)
C22_DriverAppliesPipelineChecks ==
    (DriverRan /\ last.phase = "returned") =>
        \A i \in 1 .. Len(last.df) :
            ~ ColumnSkipped(i) =>
                SameChecks(last.out, last.df[i], Labels[i], DOMAIN PipelineChecks)

\* the part of C22 that is about the six checks core.py implements
DriverAppliesItsSixChecks ==
    (DriverRan /\ last.phase = "returned") =>
        \A i \in 1 .. Len(last.df) :
            ~ ColumnSkipped(i) =>
                SameChecks(last.out, last.df[i], Labels[i],
                           {a \in DOMAIN PipelineChecks :
                               PipelineChecks[a] # "SuspiciousNumbersCheck"})

-----------------------------------------------------------------------------
\* the positions in last.out at which column i is visited: its exploration
\* is started or its skip is announced
Visits(i) ==
    OutEvents("call", Labels[i])
        \cup {j \in OutEvents("print", "skipping") : last.out[j].v = << i >>}

(* C23: for every table and skip policy, the table driver visits the       *)
(* columns in the table's declared order and invokes the column            *)
(* exploration at most once per column, also when the exploration of a     *)
(* column itself fails with a type error: the exploration of that column   *)
(* is not started a second time.                                           *)
C23_EachColumnExploredOnce ==
    DriverRan =>
        /\ \A i \in 1 .. Len(last.df) :
              Cardinality(OutEvents("call", Labels[i])) <= 1
        /\ \A i, j \in 1 .. Len(last.df) :
              i < j => \A x \in Visits(i), y \in Visits(j) : x < y

\* the part of C23 that is about calls in which no exploration raises
\* TypeError
ColumnsInOrderOnce ==
    (DriverRan /\ last.exc # "TypeError") =>
        /\ \A i \in 1 .. Len(last.df) : Cardinality(Visits(i)) <= 1
        /\ \A i, j \in 1 .. Len(last.df) :
              i < j => \A x \in Visits(i), y \in Visits(j) : x < y

-----------------------------------------------------------------------------
\* the step is a call of explore or explore_series that fails with the
\* configuration error or with the invalid-path error
FailedCall ==
    /\ last.phase # "running"
    /\ last'.phase = "raised"
    /\ last'.exc \in {"ValueError(silent)", "ValueError(bad path)"}

(* C24: a call of explore or explore_series that fails with a              *)
(* configuration error (silent with no output path) or an invalid-path     *)
(* error leaves the process-wide state unchanged: the print-to-screen flag *)
(* and the current output stream have, after the failed call, the values   *)
(* they had before it.                                                     *)
C24_FailedCallLeavesState ==
    [][FailedCall => /\ PRINT_TO_SCREEN' = PRINT_TO_SCREEN
                     /\ OUTPUT_F' = OUTPUT_F]_vars

\* the part of C24 that is about the output stream
FailedCallLeavesStream ==
    [][FailedCall => /\ OUTPUT_F' = OUTPUT_F
                     /\ files' = files
                     /\ opened' = opened]_vars

====
